---- MODULE Spec2Model ----
(***************************************************************************)
(* A model of the transcriber-agent's two pieces of original logic:        *)
(*   - _group_words_into_segments  (src/transcription/google_transcriber.py)*)
(*   - _seconds_to_timestamp, format_srt  (src/output/formatter.py)        *)
(*                                                                         *)
(* Representation.                                                         *)
(*   str            a sequence of one-character strings                    *)
(*   float seconds  an integer count of 1/16 s ("ticks"); every such value *)
(*                  is exactly representable as a double, and so are the   *)
(*                  products the code forms from it, so the code's float   *)
(*                  arithmetic is exact on the inputs of the model         *)
(*   Optional[T]    << >> for None, <<x>> for a value x                    *)
(*   an object without an attribute / a dict without a key                 *)
(*                  a record without that field                            *)
(***************************************************************************)
EXTENDS Integers, Sequences, FiniteSets, TLC

VARIABLES pc, words, idx, cur_speaker, cur_words, seg_start, seg_end,
          segments, result, srt_in, srt_out, ts_in, ts_out

\* the builder and the formatter
coreVars == <<pc, words, idx, cur_speaker, cur_words, seg_start, seg_end,
              segments, result, srt_in, srt_out, ts_in, ts_out>>

\* A caller that runs the builder and format_srt again and again: the
\* calls it has made, the input it handed to the running call, and the
\* outcome of the first call on each input.
VARIABLES calls, call_in, first_out
callVars == <<calls, call_in, first_out>>

\* One run of the orchestration (main of the command line, run_transcription
\* of the web page): where it is, its arguments, the backends transcribe
\* has invoked, what the backend gave and what transcribe gave its caller,
\* the formatters called with their arguments, and the rendering.
VARIABLES main_pc, entry, args_multi, args_output_format, invoked,
          backend_out, main_result, rendered, content
mainVars == <<main_pc, entry, args_multi, args_output_format, invoked,
              backend_out, main_result, rendered, content>>

\* The module whisper_transcriber in a process with several threads: the
\* name whisper (unbound until the module is imported, then the library or
\* None), the cache _MODEL, the calls of whisper.load_model so far, and for
\* each thread its position in transcribe_whisper and its local model;
\* the models that model.transcribe has been called on, and the calls of
\* transcribe_whisper so far.
VARIABLES whisper, _MODEL, load_calls, w_pc, model, transcribed_on, w_calls
whisperVars == <<whisper, _MODEL, load_calls, w_pc, model, transcribed_on,
                 w_calls>>

\* transcribe_google and its world: the names speech and storage
\* (unbound until the module is imported), os.environ's GCS_BUCKET, the
\* objects in the buckets, the requests sent to Google so far (uploads,
\* recognitions, deletions), the calls made so far, and for the running
\* call its position, arguments, locals and outcome.
VARIABLES speech, storage, environ, objects, requests, g_calls, g_pc,
          audio_path, gcs_bucket, delete_after, bucket_name, gcs_uri,
          response, full_text, delete_failed, g_out
googleVars == <<speech, storage, environ, objects, requests, g_calls, g_pc,
                audio_path, gcs_bucket, delete_after, bucket_name, gcs_uri,
                response, full_text, delete_failed, g_out>>

\* summary_agent: the configured OPENAI_API_KEY (None here until the module
\* is imported, then the string), the lazily imported name openai, and for the running call
\* of generate_summary its position, its transcript, whether it has called
\* the API, what the API did, and its outcome.
VARIABLES OPENAI_API_KEY, openai, s_pc, s_transcript, api_called, api_outcome,
          summary
summaryVars == <<OPENAI_API_KEY, openai, s_pc, s_transcript, api_called,
                 api_outcome, summary>>

\* everything but the builder and the formatter
extVars == <<callVars, mainVars, whisperVars, googleVars, summaryVars>>
\* everything but the repeated calls' bookkeeping
outsideCalls == <<mainVars, whisperVars, googleVars, summaryVars>>
\* everything but the orchestration
outsideMain == <<coreVars, callVars, whisperVars, googleVars, summaryVars>>
\* everything but whisper_transcriber
outsideWhisper == <<coreVars, callVars, mainVars, googleVars, summaryVars>>
\* everything but summary_agent
outsideSummary == <<coreVars, callVars, mainVars, whisperVars, googleVars>>
\* the builder's own state
builderVars == <<pc, words, idx, cur_speaker, cur_words, seg_start, seg_end,
                 segments, result>>
\* everything but transcribe_google and the builder it calls
outsideGoogle == <<srt_in, srt_out, ts_in, ts_out, callVars, mainVars,
                   whisperVars, summaryVars>>

vars == <<coreVars, extVars>>

(***************************************************************************)
(* Bounds of the model.                                                    *)
(***************************************************************************)
MaxWords == 3
MaxSegs == 2
MaxCalls == 3
NumThreads == 2
MaxWhisperCalls == 3
MaxGoogleCalls == 1

(***************************************************************************)
(* Python values.                                                          *)
(***************************************************************************)
None == << >>
Some(x) == <<x>>
IsNone(o) == o = << >>
Val(o) == o[1]

\* float seconds as ticks of 1/16 s
Ticks(sec) == sec * 16

Whitespace == {" ", "\n", "\t"}

RECURSIVE LStrip(_)
LStrip(s) ==
  IF s # << >> /\ Head(s) \in Whitespace THEN LStrip(Tail(s)) ELSE s

RECURSIVE RStrip(_)
RStrip(s) ==
  IF s # << >> /\ s[Len(s)] \in Whitespace
  THEN RStrip(SubSeq(s, 1, Len(s) - 1))
  ELSE s

\* str.strip()
Strip(s) == RStrip(LStrip(s))

\* sep.join(parts)
RECURSIVE Join(_, _)
Join(sep, parts) ==
  IF parts = << >> THEN << >>
  ELSE IF Len(parts) = 1 THEN parts[1]
  ELSE parts[1] \o sep \o Join(sep, Tail(parts))

DigitChar(d) == <<"0", "1", "2", "3", "4", "5", "6", "7", "8", "9">>[d + 1]

RECURSIVE Digits(_)
Digits(n) ==
  IF n < 10 THEN <<DigitChar(n)>>
  ELSE Digits(n \div 10) \o <<DigitChar(n % 10)>>

\* str(n) of an int
PyStr(n) == IF n < 0 THEN <<"-">> \o Digits(-n) ELSE Digits(n)

RECURSIVE Zeros(_)
Zeros(k) == IF k <= 0 THEN << >> ELSE <<"0">> \o Zeros(k - 1)

\* f"{n:0w}" of an int: sign first, then zeros up to the width, then digits
ZeroPad(n, w) ==
  IF n < 0
  THEN <<"-">> \o Zeros(w - 1 - Len(Digits(-n))) \o Digits(-n)
  ELSE Zeros(w - Len(Digits(n))) \o Digits(n)

\* int(x) of a float x = num/den (den > 0): truncation toward zero
TruncDiv(num, den) ==
  IF num >= 0 THEN num \div den ELSE -((-num) \div den)

\* "a or b" with only None falsy
PyOr_NoneOnly(a, b) == IF IsNone(a) THEN b ELSE a

\* "a or b" on Optional[float]: None and 0.0 are falsy
PyOr(a, b) == IF IsNone(a) \/ a = Some(0) THEN b ELSE a

(***************************************************************************)
(* Inputs of the segment builder.                                          *)
(***************************************************************************)
StrHi == <<"H", "i">>
StrThere == <<"t", "h", "e", "r", "e">>
StrBye == <<"B", "y", "e">>
WordTexts == {StrHi, StrBye}
PosText(k) == <<StrHi, StrThere, StrBye>>[((k - 1) % 3) + 1]

SpeakerIds == {0, 1}

\* a google.protobuf Duration
Duration(s, n) == [seconds |-> s, nanos |-> n]
D00 == Duration(0, 0)
D05 == Duration(0, 500000000)
D10 == Duration(1, 0)
D15 == Duration(1, 500000000)

Word(t, spk, st, en) ==
  [word |-> t, speaker_tag |-> spk, start_time |-> st, end_time |-> en]
\* a word object that has no speaker_tag attribute at all
WordNoTag(t, st, en) == [word |-> t, start_time |-> st, end_time |-> en]

\* the k-th word of an utterance spoken at two words a second
PosStart(k) == Duration((k - 1) \div 2, ((k - 1) % 2) * 500000000)
PosEnd(k) == Duration(k \div 2, (k % 2) * 500000000)

\* Three families of words at position k of an input.
\*   "speech": any text, any speaker tag (an id, None, or no attribute at
\*             all), timing by position;
\*   "timed":  text by position, a speaker id, start <= end, in or out of
\*             chronological order;
\*   "gaps":   text by position, a speaker id, start or end possibly absent.
Families == {"speech", "timed", "gaps"}

TimedPairs ==
  { <<Some(D00), Some(D00)>>, <<Some(D00), Some(D05)>>,
    <<Some(D05), Some(D10)>>, <<Some(D10), Some(D15)>> }
GapPairs ==
  { <<Some(D05), Some(D10)>>, <<None, Some(D10)>>,
    <<Some(D05), None>>, <<Some(D00), None>>, <<None, None>> }

WordsAt(f, k) ==
  IF f = "speech"
  THEN {Word(t, Some(s), Some(PosStart(k)), Some(PosEnd(k))) :
           t \in WordTexts, s \in SpeakerIds}
       \cup {Word(t, None, Some(PosStart(k)), Some(PosEnd(k))) :
                t \in WordTexts}
       \cup {WordNoTag(t, Some(PosStart(k)), Some(PosEnd(k))) :
                t \in WordTexts}
  ELSE {Word(PosText(k), Some(s), p[1], p[2]) :
           s \in SpeakerIds,
           p \in IF f = "timed" THEN TimedPairs ELSE GapPairs}

\* the lists of n words of family f
RECURSIVE ListsOf(_, _)
ListsOf(f, n) ==
  IF n = 0 THEN {<< >>}
  ELSE {Append(l, w) : l \in ListsOf(f, n - 1), w \in WordsAt(f, n)}

WordLists == UNION {ListsOf(f, n) : f \in Families, n \in 0..MaxWords}

(***************************************************************************)
(* _group_words_into_segments                                              *)
(***************************************************************************)
HasAttr(w, a) == a \in DOMAIN w

\* ts_to_sec that leaves out the nanos
ts_to_sec_SecondsOnly(ts) ==
  IF ~IsNone(ts) THEN Ticks(Val(ts).seconds) ELSE 0

\* ts_to_sec (ts is a Duration or None), in ticks
ts_to_sec(ts) ==
  IF ~IsNone(ts)
  THEN Ticks(Val(ts).seconds) + Val(ts).nanos \div 62500000
  ELSE 0

StrSPEAKER == <<"S", "P", "E", "A", "K", "E", "R", "_">>
StrNone == <<"N", "o", "n", "e">>

\* f"SPEAKER_{cur_speaker}"
SpeakerLabel(spk) ==
  StrSPEAKER \o (IF IsNone(spk) THEN StrNone ELSE PyStr(Val(spk)))

\* MakeSegment with start and end exchanged
MakeSegment_Swapped(spk, s_start, s_end, ws) ==
  [speaker |-> SpeakerLabel(spk),
   start |-> Val(PyOr(PyOr(s_end, s_start), Some(0))),
   end |-> Val(PyOr(s_start, Some(0))),
   text |-> Strip(Join(<<" ">>, ws))]

\* the dict appended when a segment is flushed
MakeSegment(spk, s_start, s_end, ws) ==
  [speaker |-> SpeakerLabel(spk),
   start |-> Val(PyOr(s_start, Some(0))),
   end |-> Val(PyOr(PyOr(s_end, s_start), Some(0))),
   text |-> Strip(Join(<<" ">>, ws))]

\* GroupEnterFrom with the list of segments kept from the call before
GroupEnterFrom_KeepsSegments(inputs) ==
  /\ pc = "idle"
  /\ \E ws \in inputs :
       /\ words' = ws
       /\ pc' = IF ws = << >> THEN "returned" ELSE "loop"
  /\ result' = segments
  /\ cur_speaker' = None
  /\ cur_words' = << >>
  /\ seg_start' = None
  /\ seg_end' = None
  /\ idx' = 1
  /\ UNCHANGED <<segments, srt_in, srt_out, ts_in, ts_out>>

\* a call on one of the inputs: segments = []; if not words: return
\* segments; then the locals' first values
GroupEnterFrom(inputs) ==
  /\ pc = "idle"
  /\ \E ws \in inputs :
       /\ words' = ws
       /\ pc' = IF ws = << >> THEN "returned" ELSE "loop"
  /\ segments' = << >>
  /\ result' = << >>
  /\ cur_speaker' = None
  /\ cur_words' = << >>
  /\ seg_start' = None
  /\ seg_end' = None
  /\ idx' = 1
  /\ UNCHANGED <<srt_in, srt_out, ts_in, ts_out>>

GroupEnter ==
  /\ GroupEnterFrom(WordLists)
  /\ UNCHANGED extVars

\* spk = w.speaker_tag on an object without the attribute: AttributeError
GroupRaise ==
  /\ pc = "loop"
  /\ idx <= Len(words)
  /\ ~HasAttr(words[idx], "speaker_tag")
  /\ pc' = "raised"
  /\ UNCHANGED <<words, idx, cur_speaker, cur_words, seg_start, seg_end,
                 segments, result, srt_in, srt_out, ts_in, ts_out>>
  /\ UNCHANGED extVars

\* if cur_speaker is None: open the first segment
GroupOpenFirst ==
  /\ pc = "loop"
  /\ idx <= Len(words)
  /\ HasAttr(words[idx], "speaker_tag")
  /\ IsNone(cur_speaker)
  /\ cur_speaker' = words[idx].speaker_tag
  /\ cur_words' = <<words[idx].word>>
  /\ seg_start' = Some(ts_to_sec(words[idx].start_time))
  /\ seg_end' = Some(ts_to_sec(words[idx].end_time))
  /\ idx' = idx + 1
  /\ UNCHANGED <<pc, words, segments, result, srt_in, srt_out, ts_in, ts_out>>
  /\ UNCHANGED extVars

\* GroupAppend with the word's text not appended to cur_words
GroupAppend_DropsWord ==
  /\ pc = "loop"
  /\ idx <= Len(words)
  /\ HasAttr(words[idx], "speaker_tag")
  /\ ~IsNone(cur_speaker)
  /\ words[idx].speaker_tag = cur_speaker
  /\ seg_end' = Some(ts_to_sec(words[idx].end_time))
  /\ idx' = idx + 1
  /\ UNCHANGED <<pc, words, cur_speaker, cur_words, seg_start, segments,
                 result, srt_in, srt_out, ts_in, ts_out>>
  /\ UNCHANGED extVars

\* if spk == cur_speaker: extend the open segment
GroupAppend ==
  /\ pc = "loop"
  /\ idx <= Len(words)
  /\ HasAttr(words[idx], "speaker_tag")
  /\ ~IsNone(cur_speaker)
  /\ words[idx].speaker_tag = cur_speaker
  /\ cur_words' = Append(cur_words, words[idx].word)
  /\ seg_end' = Some(ts_to_sec(words[idx].end_time))
  /\ idx' = idx + 1
  /\ UNCHANGED <<pc, words, cur_speaker, seg_start, segments, result,
                 srt_in, srt_out, ts_in, ts_out>>
  /\ UNCHANGED extVars

\* GroupFlush with the new speaker's word added to the open segment
\* instead of closing it
GroupFlush_Merges ==
  /\ pc = "loop"
  /\ idx <= Len(words)
  /\ HasAttr(words[idx], "speaker_tag")
  /\ ~IsNone(cur_speaker)
  /\ words[idx].speaker_tag # cur_speaker
  /\ cur_words' = Append(cur_words, words[idx].word)
  /\ seg_end' = Some(ts_to_sec(words[idx].end_time))
  /\ idx' = idx + 1
  /\ UNCHANGED <<pc, words, cur_speaker, seg_start, segments, result,
                 srt_in, srt_out, ts_in, ts_out>>
  /\ UNCHANGED extVars

\* else: flush the previous segment and start a new one
GroupFlush ==
  /\ pc = "loop"
  /\ idx <= Len(words)
  /\ HasAttr(words[idx], "speaker_tag")
  /\ ~IsNone(cur_speaker)
  /\ words[idx].speaker_tag # cur_speaker
  /\ segments' =
       Append(segments, MakeSegment(cur_speaker, seg_start, seg_end, cur_words))
  /\ cur_speaker' = words[idx].speaker_tag
  /\ cur_words' = <<words[idx].word>>
  /\ seg_start' = Some(ts_to_sec(words[idx].start_time))
  /\ seg_end' = Some(ts_to_sec(words[idx].end_time))
  /\ idx' = idx + 1
  /\ UNCHANGED <<pc, words, result, srt_in, srt_out, ts_in, ts_out>>
  /\ UNCHANGED extVars

\* GroupReturn without the flush of the last open segment
GroupReturn_NoLastFlush ==
  /\ pc = "loop"
  /\ idx > Len(words)
  /\ result' = segments
  /\ pc' = "returned"
  /\ UNCHANGED <<words, idx, cur_speaker, cur_words, seg_start, seg_end,
                 segments, srt_in, srt_out, ts_in, ts_out>>
  /\ UNCHANGED extVars

\* after the loop: flush the last segment if cur_words, return segments
GroupReturn ==
  /\ pc = "loop"
  /\ idx > Len(words)
  /\ segments' =
       IF cur_words # << >>
       THEN Append(segments,
                   MakeSegment(cur_speaker, seg_start, seg_end, cur_words))
       ELSE segments
  /\ result' = segments'
  /\ pc' = "returned"
  /\ UNCHANGED <<words, idx, cur_speaker, cur_words, seg_start, seg_end,
                 srt_in, srt_out, ts_in, ts_out>>
  /\ UNCHANGED extVars

(***************************************************************************)
(* _seconds_to_timestamp and format_srt                                    *)
(***************************************************************************)
\* _seconds_to_timestamp with the minutes not reduced modulo the hour
_seconds_to_timestamp_MinutesOverflow(seconds) ==
  LET hours == seconds \div Ticks(3600)
      minutes == seconds \div Ticks(60)
      secs == TruncDiv(seconds % Ticks(60), Ticks(1))
      millis ==
        TruncDiv((seconds - Ticks(TruncDiv(seconds, Ticks(1)))) * 1000,
                 Ticks(1))
  IN  ZeroPad(hours, 2) \o <<":">> \o ZeroPad(minutes, 2) \o <<":">>
        \o ZeroPad(secs, 2) \o <<",">> \o ZeroPad(millis, 3)

\* seconds (a float, in ticks) -> "HH:MM:SS,mmm".  // and % floor, int()
\* truncates toward zero.
_seconds_to_timestamp(seconds) ==
  LET hours == seconds \div Ticks(3600)
      minutes == (seconds % Ticks(3600)) \div Ticks(60)
      secs == TruncDiv(seconds % Ticks(60), Ticks(1))
      millis ==
        TruncDiv((seconds - Ticks(TruncDiv(seconds, Ticks(1)))) * 1000,
                 Ticks(1))
  IN  ZeroPad(hours, 2) \o <<":">> \o ZeroPad(minutes, 2) \o <<":">>
        \o ZeroPad(secs, 2) \o <<",">> \o ZeroPad(millis, 3)

\* dict.get(key, default)
Get(d, key, default) == IF key \in DOMAIN d THEN d[key] ELSE default

StrArrow == <<" ", "-", "-", ">", " ">>

\* the f-string appended to srt_lines for one segment
SrtBlock(index, segment) ==
  LET start_ts == _seconds_to_timestamp(Get(segment, "start", 0))
      end_ts == _seconds_to_timestamp(Get(segment, "end", 0))
      text == Strip(Get(segment, "text", << >>))
  IN  PyStr(index) \o <<"\n">> \o start_ts \o StrArrow \o end_ts \o <<"\n">>
        \o text \o <<"\n">>

\* SrtLines numbering the segments from 0
SrtLines_FromZero(segs) == [k \in 1..Len(segs) |-> SrtBlock(k - 1, segs[k])]

\* enumerate(segments, start=1)
SrtLines(segs) == [k \in 1..Len(segs) |-> SrtBlock(k, segs[k])]

\* format_srt joining the blocks without a separator
format_srt_NoSeparator(segs) == Join(<< >>, SrtLines(segs))

\* "\n".join(srt_lines)
format_srt(segs) == Join(<<"\n">>, SrtLines(segs))

(***************************************************************************)
(* Inputs of the formatter: Whisper-style segment dicts (the text carries  *)
(* a leading or trailing blank, a key may be missing, end may precede      *)
(* start), and second counts for the timestamp.                            *)
(***************************************************************************)
StrLeadHi == <<" ", "H", "i">>
StrByeTrail == <<"B", "y", "e", " ">>

SegmentDicts ==
  {[start |-> s, end |-> e, text |-> t] :
      s \in {0, Ticks(1) + 8}, e \in {Ticks(1), Ticks(3661) + 8},
      t \in {StrLeadHi, StrByeTrail}}
  \cup {[text |-> StrLeadHi], [start |-> 8, end |-> Ticks(1)]}

SegmentLists == UNION {[1..n -> SegmentDicts] : n \in 0..MaxSegs}

SecondCounts ==
  {Ticks(h * 3600 + m * 60 + s) + f :
      h \in {0, 1, 100}, m \in {0, 1, 59}, s \in {0, 1, 59},
      f \in {0, 1, 8, 15}}
  \cup {-1, -8, -Ticks(1) - 8, -Ticks(3600) - 8}

\* a call of format_srt on segment dicts
FormatSrtCall ==
  /\ pc = "idle"
  /\ \E segs \in SegmentLists :
       /\ srt_in' = segs
       /\ srt_out' = format_srt(segs)
  /\ pc' = "srt_done"
  /\ UNCHANGED <<words, idx, cur_speaker, cur_words, seg_start, seg_end,
                 segments, result, ts_in, ts_out>>
  /\ UNCHANGED extVars

\* format_srt on the segments the builder returned
FormatSrtResult ==
  /\ pc = "returned"
  /\ srt_in' = result
  /\ srt_out' = format_srt(result)
  /\ pc' = "srt_done"
  /\ UNCHANGED <<words, idx, cur_speaker, cur_words, seg_start, seg_end,
                 segments, result, ts_in, ts_out>>
  /\ UNCHANGED extVars

\* a call of _seconds_to_timestamp
TimestampCall ==
  /\ pc = "idle"
  /\ \E s \in SecondCounts :
       /\ ts_in' = s
       /\ ts_out' = _seconds_to_timestamp(s)
  /\ pc' = "ts_done"
  /\ UNCHANGED <<words, idx, cur_speaker, cur_words, seg_start, seg_end,
                 segments, result, srt_in, srt_out>>
  /\ UNCHANGED extVars

Init ==
  /\ pc = "idle"
  /\ words = << >>
  /\ idx = 1
  /\ cur_speaker = None
  /\ cur_words = << >>
  /\ seg_start = None
  /\ seg_end = None
  /\ segments = << >>
  /\ result = << >>
  /\ srt_in = << >>
  /\ srt_out = << >>
  /\ ts_in = 0
  /\ ts_out = << >>
  /\ calls = 0
  /\ call_in = << >>
  /\ first_out = << >>
  /\ main_pc = "start"
  /\ entry = "main"
  /\ args_multi = None
  /\ args_output_format = "txt"
  /\ invoked = << >>
  /\ backend_out = None
  /\ main_result = None
  /\ rendered = << >>
  /\ content = None
  /\ whisper = "unbound"
  /\ _MODEL = None
  /\ load_calls = 0
  /\ w_pc = [t \in 1..NumThreads |-> "idle"]
  /\ model = [t \in 1..NumThreads |-> None]
  /\ transcribed_on = {}
  /\ w_calls = 0
  /\ speech = "unbound"
  /\ storage = "unbound"
  /\ environ = None
  /\ objects = {}
  /\ requests = << >>
  /\ g_calls = 0
  /\ g_pc = "idle"
  /\ audio_path = << >>
  /\ gcs_bucket = None
  /\ delete_after = TRUE
  /\ bucket_name = None
  /\ gcs_uri = None
  /\ response = None
  /\ full_text = None
  /\ delete_failed = FALSE
  /\ g_out = None
  /\ OPENAI_API_KEY = None
  /\ openai = None
  /\ s_pc = "idle"
  /\ s_transcript = << >>
  /\ api_called = FALSE
  /\ api_outcome = None
  /\ summary = None

Next ==
  \/ GroupEnter
  \/ GroupRaise
  \/ GroupOpenFirst
  \/ GroupAppend
  \/ GroupFlush
  \/ GroupReturn
  \/ FormatSrtResult
  \/ FormatSrtCall
  \/ TimestampCall

Spec == Init /\ [][Next]_vars

(***************************************************************************)
(* Vocabulary of the properties.                                           *)
(***************************************************************************)
Returned == pc = "returned"

\* the pieces of s between the occurrences of the character ch
RECURSIVE SplitOn(_, _)
SplitOn(s, ch) ==
  IF \A i \in 1..Len(s) : s[i] # ch THEN <<s>>
  ELSE LET p == CHOOSE i \in 1..Len(s) :
                  s[i] = ch /\ \A j \in 1..(i - 1) : s[j] # ch
       IN  <<SubSeq(s, 1, p - 1)>> \o SplitOn(SubSeq(s, p + 1, Len(s)), ch)

\* the words a segment text is made of
TextWords(t) == IF t = << >> THEN << >> ELSE SplitOn(t, " ")

RECURSIVE Flatten(_)
Flatten(ss) == IF ss = << >> THEN << >> ELSE Head(ss) \o Flatten(Tail(ss))

InputTexts == [i \in 1..Len(words) |-> words[i].word]
ResultWords == Flatten([k \in 1..Len(result) |-> TextWords(result[k].text)])

HasSpeakerId(w) == HasAttr(w, "speaker_tag") /\ ~IsNone(w.speaker_tag)
AllHaveSpeakerId == \A i \in 1..Len(words) : HasSpeakerId(words[i])

\* a Duration in ticks
DurTicks(d) == d.seconds * 16 + d.nanos \div 62500000
\* a word's time, 0.0 for a missing one
TimeOr0(o) == IF IsNone(o) THEN 0 ELSE DurTicks(Val(o))

IsTimed(w) ==
  /\ ~IsNone(w.start_time)
  /\ ~IsNone(w.end_time)
  /\ 0 <= DurTicks(Val(w.start_time))
  /\ DurTicks(Val(w.start_time)) <= DurTicks(Val(w.end_time))
AllTimed == \A i \in 1..Len(words) : IsTimed(words[i])

\* words in chronological order: start times never decrease
Chronological ==
  \A i \in 1..(Len(words) - 1) :
     TimeOr0(words[i].start_time) <= TimeOr0(words[i + 1].start_time)

\* The runs of the input: the positions that open a maximal run of
\* consecutive words with one speaker id, and the run a position opens.
RunOpeners ==
  {i \in 1..Len(words) :
     i = 1 \/ words[i].speaker_tag # words[i - 1].speaker_tag}
RunFirst(k) ==
  CHOOSE i \in RunOpeners : Cardinality({j \in RunOpeners : j <= i}) = k
RunLast(k) ==
  IF k = Cardinality(RunOpeners) THEN Len(words) ELSE RunFirst(k + 1) - 1

\* C1: the word lists of the returned segments, concatenated in segment
\* order, are the input word sequence: nothing dropped, duplicated or
\* reordered.
C1_WordsPreserved ==
  (Returned /\ AllHaveSpeakerId) => ResultWords = InputTexts

C1_Witness ==
  /\ Returned
  /\ AllHaveSpeakerId
  /\ Len(words) = 3
  /\ Len(result) = 2
  /\ words[1].word # words[2].word

\* the segment that holds the i-th word, counting the words of the texts
SegmentOf(i) ==
  CHOOSE k \in 1..Len(result) :
    /\ i <= Len(Flatten([j \in 1..k |-> TextWords(result[j].text)]))
    /\ i > Len(Flatten([j \in 1..(k - 1) |-> TextWords(result[j].text)]))

\* C2: the segments are the maximal runs of same-speaker words: adjacent
\* words share a segment exactly when their speaker ids are equal, and two
\* consecutive segments never carry the same speaker.
C2_MaximalRuns ==
  (Returned /\ AllHaveSpeakerId) =>
     /\ Len(ResultWords) = Len(words)
     /\ \A i \in 1..(Len(words) - 1) :
          (SegmentOf(i) = SegmentOf(i + 1))
            <=> (words[i].speaker_tag = words[i + 1].speaker_tag)
     /\ \A k \in 1..(Len(result) - 1) :
          result[k].speaker # result[k + 1].speaker

C2_Witness ==
  /\ Returned
  /\ AllHaveSpeakerId
  /\ Len(words) = 3
  /\ words[1].speaker_tag = words[2].speaker_tag
  /\ words[2].speaker_tag # words[3].speaker_tag
  /\ Len(result) = 2

\* the texts of the k-th run joined by single spaces
RunText(k) ==
  Join(<<" ">>, [j \in 1..(RunLast(k) - RunFirst(k) + 1) |->
                    words[RunFirst(k) + j - 1].word])
RunLabel(k) == StrSPEAKER \o PyStr(Val(words[RunFirst(k)].speaker_tag))

\* a segment per run: the run's label, the first word's start, the last
\* word's end, the joined texts
RunSegments ==
  [k \in 1..Cardinality(RunOpeners) |->
     [speaker |-> RunLabel(k),
      start |-> TimeOr0(words[RunFirst(k)].start_time),
      end |-> TimeOr0(words[RunLast(k)].end_time),
      text |-> RunText(k)]]

ExampleWords ==
  << Word(StrHi, Some(0), Some(D00), Some(D05)),
     Word(StrThere, Some(0), Some(D05), Some(D10)),
     Word(StrBye, Some(1), Some(D10), Some(D15)) >>
ExampleSegments ==
  << [speaker |-> <<"S", "P", "E", "A", "K", "E", "R", "_", "0">>,
      start |-> 0, end |-> 16,
      text |-> <<"H", "i", " ", "t", "h", "e", "r", "e">>],
     [speaker |-> <<"S", "P", "E", "A", "K", "E", "R", "_", "1">>,
      start |-> 16, end |-> 24,
      text |-> <<"B", "y", "e">>] >>

\* C3 as stated: for every input whose words all carry timing
\* (0 <= start <= end), each segment carries its run's label SPEAKER_<id>,
\* the first word's start, the last word's end and the texts joined by
\* single spaces.
C3_SegmentFields_AnyOrder ==
  (Returned /\ AllHaveSpeakerId /\ AllTimed) => result = RunSegments

\* C3, amended: the same for every input that is also in chronological
\* order; the words Hi, there, Bye of the example give its two segments.
C3_SegmentFields ==
  /\ (Returned /\ AllHaveSpeakerId /\ AllTimed /\ Chronological)
        => result = RunSegments
  /\ (Returned /\ words = ExampleWords) => result = ExampleSegments

C3_Witness ==
  /\ Returned
  /\ words = ExampleWords
  /\ result = ExampleSegments

\* C4: for a chronological input whose words have 0 <= start <= end, every
\* returned segment has start <= end.
C4_StartBeforeEnd ==
  (Returned /\ AllTimed /\ Chronological) =>
     \A k \in 1..Len(result) : result[k].start <= result[k].end

C4_Witness ==
  /\ Returned
  /\ AllTimed
  /\ Chronological
  /\ Len(words) = 3
  /\ \E k \in 1..Len(result) :
        /\ Len(TextWords(result[k].text)) >= 2
        /\ result[k].start < result[k].end

\* C5 as stated: a missing start or end time counts as 0.0, so every
\* segment starts at its first word's start and ends at its last word's
\* end, with 0.0 for each missing time.
C5_MissingTimeIsZero ==
  (Returned /\ AllHaveSpeakerId) =>
     /\ Len(result) = Cardinality(RunOpeners)
     /\ \A k \in 1..Len(result) :
          /\ result[k].start = TimeOr0(words[RunFirst(k)].start_time)
          /\ result[k].end = TimeOr0(words[RunLast(k)].end_time)

\* C5, amended: a missing time counts as 0.0; a segment starts at its first
\* word's start and ends at its last word's end, except that a segment
\* whose last word's end is 0.0 (missing or not) ends at the segment's
\* start.
C5_MissingTimeFallsBack ==
  (Returned /\ AllHaveSpeakerId) =>
     /\ Len(result) = Cardinality(RunOpeners)
     /\ \A k \in 1..Len(result) :
          /\ result[k].start = TimeOr0(words[RunFirst(k)].start_time)
          /\ result[k].end =
               IF TimeOr0(words[RunLast(k)].end_time) # 0
               THEN TimeOr0(words[RunLast(k)].end_time)
               ELSE result[k].start

C5_Witness ==
  /\ Returned
  /\ AllHaveSpeakerId
  /\ \E k \in 1..Len(result) :
        /\ k <= Cardinality(RunOpeners)
        /\ IsNone(words[RunLast(k)].end_time)
        /\ result[k].start > 0
        /\ result[k].end = result[k].start

\* a word with a text, an integer speaker id and timing
WellFormed ==
  \A i \in 1..Len(words) :
     /\ HasSpeakerId(words[i])
     /\ words[i].word # << >>
     /\ IsTimed(words[i])

\* C6: the builder returns the empty sequence for an empty input and a
\* non-empty one for a non-empty input, and on a well-formed input it never
\* raises: every step of the loop can be taken until it returns.
C6_EmptyIffEmpty ==
  /\ Returned => (result = << >> <=> words = << >>)
  /\ WellFormed => pc # "raised"
  /\ (pc = "loop" /\ WellFormed) =>
        ENABLED (GroupOpenFirst \/ GroupAppend \/ GroupFlush \/ GroupReturn)

C6_Witness ==
  /\ Returned
  /\ WellFormed
  /\ words # << >>
  /\ result # << >>

\* C7: when some word has no speaker id, the builder returns no result
\* from which an input word is missing, and a failing call returns nothing.
C7_NoSilentlyWrongGrouping ==
  (\E i \in 1..Len(words) : ~HasSpeakerId(words[i])) =>
     /\ Returned => ResultWords = InputTexts
     /\ pc = "raised" => result = << >>

(***************************************************************************)
(* Reading a rendered timestamp back.                                      *)
(***************************************************************************)
DigitChars == {DigitChar(d) : d \in 0..9}
DigitValue(c) == CHOOSE d \in 0..9 : DigitChar(d) = c
AllDigits(s) == \A i \in 1..Len(s) : s[i] \in DigitChars

RECURSIVE ParseNat(_)
ParseNat(s) ==
  IF s = << >> THEN 0
  ELSE ParseNat(SubSeq(s, 1, Len(s) - 1)) * 10 + DigitValue(s[Len(s)])

\* the fields of H..H:MM:SS,mmm, counted from the right
HoursPart(t) == SubSeq(t, 1, Len(t) - 10)
MinutesPart(t) == SubSeq(t, Len(t) - 8, Len(t) - 7)
SecondsPart(t) == SubSeq(t, Len(t) - 5, Len(t) - 4)
MillisPart(t) == SubSeq(t, Len(t) - 2, Len(t))

IsTimestamp(t) ==
  /\ Len(t) >= 12
  /\ t[Len(t) - 9] = ":"
  /\ t[Len(t) - 6] = ":"
  /\ t[Len(t) - 3] = ","
  /\ AllDigits(HoursPart(t))
  /\ AllDigits(MinutesPart(t))
  /\ AllDigits(SecondsPart(t))
  /\ AllDigits(MillisPart(t))

\* floor(1000 * s) of a second count s given in ticks
WholeMillis(ticks) == (ticks \div 16) * 1000 + ((ticks % 16) * 1000) \div 16

\* the milliseconds a timestamp reads as
TimestampMillis(t) ==
  ((ParseNat(HoursPart(t)) * 60 + ParseNat(MinutesPart(t))) * 60
      + ParseNat(SecondsPart(t))) * 1000 + ParseNat(MillisPart(t))

StrZeroTimestamp ==
  <<"0", "0", ":", "0", "0", ":", "0", "0", ",", "0", "0", "0">>
StrExampleTimestamp ==
  <<"0", "1", ":", "0", "1", ":", "0", "1", ",", "5", "0", "0">>

\* C8: for a second count s >= 0 the timestamp is HH:MM:SS,mmm with
\* minutes and seconds in 0..59 and milliseconds in 0..999, the fields
\* together are s rounded down to the millisecond, hours take two digits
\* or, from 100 hours on, as many as they need; 0.0 gives 00:00:00,000 and
\* 3661.5 gives 01:01:01,500.
C8_TimestampFields ==
  (pc = "ts_done" /\ ts_in >= 0) =>
     /\ IsTimestamp(ts_out)
     /\ ParseNat(MinutesPart(ts_out)) \in 0..59
     /\ ParseNat(SecondsPart(ts_out)) \in 0..59
     /\ ParseNat(MillisPart(ts_out)) \in 0..999
     /\ TimestampMillis(ts_out) = WholeMillis(ts_in)
     /\ ParseNat(HoursPart(ts_out)) = ts_in \div (3600 * 16)
     /\ (ts_in < 100 * 3600 * 16 => Len(HoursPart(ts_out)) = 2)
     /\ (ts_in >= 100 * 3600 * 16 =>
            Len(HoursPart(ts_out)) > 2 /\ Head(ts_out) # "0")
     /\ (ts_in = 0 => ts_out = StrZeroTimestamp)
     /\ (ts_in = 3661 * 16 + 8 => ts_out = StrExampleTimestamp)

C8_Witness ==
  /\ pc = "ts_done"
  /\ ts_in >= 100 * 3600 * 16
  /\ ts_in % 16 = 1
  /\ Len(ts_out) = 13

(***************************************************************************)
(* Reading a rendered SRT text back.                                       *)
(***************************************************************************)
SrtOutLines == SplitOn(srt_out, "\n")

\* line is text without the white space around it
IsTrimOf(line, text) ==
  /\ line = << >> \/ (line[1] \notin Whitespace /\ line[Len(line)] \notin Whitespace)
  /\ \E a \in 0..Len(text) : \E b \in a..Len(text) :
        /\ SubSeq(text, a + 1, b) = line
        /\ \A i \in (1..a) \cup ((b + 1)..Len(text)) : text[i] \in Whitespace

IsCueLine(line) ==
  \E i \in 1..(Len(line) - 4) : SubSeq(line, i, i + 4) = StrArrow

\* C9: format_srt renders one cue per segment, in order: the k-th block
\* carries the index k and the start, the end and the trimmed text of the
\* k-th segment, and there are as many cues as segments.
C9_OneCuePerSegment ==
  pc = "srt_done" =>
     /\ Cardinality({i \in 1..Len(SrtOutLines) : IsCueLine(SrtOutLines[i])})
          = Len(srt_in)
     /\ Len(srt_in) > 0 => Len(SrtOutLines) >= 4 * Len(srt_in) - 1
     /\ \A k \in 1..Len(srt_in) :
          /\ AllDigits(SrtOutLines[4 * k - 3])
          /\ ParseNat(SrtOutLines[4 * k - 3]) = k
          /\ SrtOutLines[4 * k - 2] =
               _seconds_to_timestamp(Get(srt_in[k], "start", 0))
                 \o StrArrow
                 \o _seconds_to_timestamp(Get(srt_in[k], "end", 0))
          /\ IsTrimOf(SrtOutLines[4 * k - 1], Get(srt_in[k], "text", << >>))

C9_Witness ==
  /\ pc = "srt_done"
  /\ Len(srt_in) = 2
  /\ srt_in[1] # srt_in[2]
  /\ "text" \in DOMAIN srt_in[1]
  /\ Head(srt_in[1].text) = " "

\* C10: format_srt gives the empty string for no segments; otherwise each
\* block is three lines, one blank line separates consecutive blocks, and
\* the text ends with one line terminator after the last text line, with
\* no further blank line.
C10_BlockLayout ==
  pc = "srt_done" =>
     /\ srt_in = << >> => srt_out = << >>
     /\ srt_in # << >> =>
          /\ Len(SrtOutLines) = 4 * Len(srt_in)
          /\ srt_out[Len(srt_out)] = "\n"
          /\ \A k \in 1..Len(srt_in) :
               /\ SrtOutLines[4 * k - 3] # << >>
               /\ SrtOutLines[4 * k - 2] # << >>
               /\ SrtOutLines[4 * k] = << >>

C10_Witness ==
  /\ pc = "srt_done"
  /\ words # << >>
  /\ Len(srt_in) = 3
  /\ Len(SrtOutLines) = 12

\* C11: a call of _seconds_to_timestamp with a negative second count fails:
\* it returns no timestamp.
C11_NegativeRejected == ~(pc = "ts_done" /\ ts_in < 0)

\* C12: format_srt fails, and renders nothing, when some segment ends
\* before it starts.
C12_EndBeforeStartRejected ==
  pc = "srt_done" =>
     \A k \in 1..Len(srt_in) :
        Get(srt_in[k], "start", 0) <= Get(srt_in[k], "end", 0)

\* ------------------------------------------------------------------
\* Repeated calls: a caller that runs the builder and then format_srt on
\* its segments, again and again in one process.

\* the word lists the caller hands over
RepeatInputs ==
  { << >>,
    ExampleWords,
    << ExampleWords[1] >>,
    << ExampleWords[3], ExampleWords[1] >>,
    << Word(StrHi, None, Some(D00), Some(D05)),
       Word(StrBye, Some(1), None, None) >>,
    << Word(StrHi, Some(0), Some(D00), Some(D05)),
       WordNoTag(StrBye, Some(D05), Some(D10)) >> }

\* what a call gave back: the exception, or the segments and their SRT
Outcome ==
  IF pc = "raised" THEN << "raised" >> ELSE << "srt_done", result, srt_out >>

\* the caller starts a call on one of its inputs
RepeatEnter ==
  /\ calls < MaxCalls
  /\ GroupEnterFrom(RepeatInputs)
  /\ call_in' = words'
  /\ UNCHANGED <<calls, first_out>>
  /\ UNCHANGED outsideCalls

\* the call is over: its outcome is the caller's, which remembers the first
\* outcome of every input
CallDone ==
  /\ pc \in {"srt_done", "raised"}
  /\ pc' = "idle"
  /\ calls' = calls + 1
  /\ first_out' = IF call_in \in DOMAIN first_out
                  THEN first_out
                  ELSE first_out @@ (call_in :> Outcome)
  /\ UNCHANGED <<words, idx, cur_speaker, cur_words, seg_start, seg_end,
                 segments, result, srt_in, srt_out, ts_in, ts_out, call_in>>
  /\ UNCHANGED outsideCalls

NextCalls ==
  \/ RepeatEnter
  \/ GroupRaise
  \/ GroupOpenFirst
  \/ GroupAppend
  \/ GroupFlush
  \/ GroupReturn
  \/ FormatSrtResult
  \/ CallDone

SpecCalls == Init /\ [][NextCalls]_vars

\* a call is running or has just ended
InCall == pc \in {"loop", "returned", "srt_done", "raised"}

\* C13: whatever calls came before, a call that has ended on an input gives
\* the outcome the first call on that input gave; while a call runs, its
\* word list is the one handed over, and format_srt leaves the segments it
\* was given as they were.
C13_Deterministic ==
  /\ (pc \in {"srt_done", "raised"} /\ call_in \in DOMAIN first_out)
        => Outcome = first_out[call_in]
  /\ InCall => words = call_in
  /\ pc = "srt_done" => (srt_in = result /\ srt_out = format_srt(srt_in))

\* the example is run a second time, after a call on another input
C13_Witness ==
  /\ pc = "srt_done"
  /\ calls >= 1
  /\ call_in = ExampleWords
  /\ ExampleWords \in DOMAIN first_out
  /\ Cardinality(DOMAIN first_out) >= 2
  /\ Outcome = first_out[call_in]
  /\ result = ExampleSegments


\* ------------------------------------------------------------------
\* The orchestration: transcribe of the dispatcher, then the choice of the
\* formatter in main and in run_transcription.

\* def transcribe(audio_path, use_diarization=False): an omitted argument
\* is False
UseDiarization(arg) == IF IsNone(arg) THEN FALSE ELSE Val(arg)

\* Backend with the two branches exchanged
Backend_Swapped(use_diarization) ==
  IF use_diarization THEN "transcribe_whisper" ELSE "transcribe_google"

\* if use_diarization: return transcribe_google(audio_path)
\* return transcribe_whisper(audio_path)
Backend(use_diarization) ==
  IF use_diarization THEN "transcribe_google" ELSE "transcribe_whisper"

Returns(v) == [kind |-> "return", val |-> v]
Raises(e) == [kind |-> "raise", val |-> e]

\* the transcripts a backend gives
Transcripts == {<< >>, StrHi, StrLeadHi}

\* the segment lists a backend gives
SegmentResults == {<< >>, ExampleSegments, <<[start |-> 24, text |-> StrLeadHi]>>}

\* what a backend does: it returns a dict, with or without the keys text
\* and segments, or it raises
BackendOutcomes ==
  {Returns([text |-> t, segments |-> g]) :
      t \in Transcripts, g \in SegmentResults}
  \cup {Returns([text |-> t]) : t \in Transcripts}
  \cup {Returns([segments |-> g]) : g \in SegmentResults}
  \cup {Raises("RuntimeError"), Raises("FileNotFoundError")}

OutputFormats == {"txt", "md", "srt", "docx", "other"}

\* return text.strip() + "\n"
format_plain_text(text) == Strip(text) \o <<"\n">>
format_markdown(text) == Strip(text) \o <<"\n">>

Called(fn, arg) == [fn |-> fn, arg |-> arg]

\* the srt branch with format_srt called whatever the segments are
SrtBranch_AlwaysSrt(res, transcript) ==
  LET segs == Get(res, "segments", << >>)
  IN  [calls |-> <<Called("format_srt", segs)>>, content |-> format_srt(segs)]

\* segments = result.get("segments", [])
\* content = format_srt(segments) if segments else format_plain_text(transcript)
SrtBranch(res, transcript) ==
  LET segs == Get(res, "segments", << >>)
  IN  IF segs # << >>
      THEN [calls |-> <<Called("format_srt", segs)>>,
            content |-> format_srt(segs)]
      ELSE [calls |-> <<Called("format_plain_text", transcript)>>,
            content |-> format_plain_text(transcript)]

StrDocxGenerated ==
  <<"(", "D", "O", "C", "X", " ", "f", "i", "l", "e", " ",
    "g", "e", "n", "e", "r", "a", "t", "e", "d", ")">>

\* main() or run_transcription() is entered with its arguments
MainEnter ==
  /\ main_pc = "start"
  /\ \E e \in {"main", "run_transcription"},
        m \in {None, Some(TRUE), Some(FALSE)},
        f \in OutputFormats :
        \* --format has choices txt, md, srt and docx on the command line
        /\ ~(e = "main" /\ f = "other")
        /\ entry' = e
        /\ args_multi' = m
        /\ args_output_format' = f
  /\ main_pc' = "transcribe"
  /\ UNCHANGED <<invoked, backend_out, main_result, rendered, content>>
  /\ UNCHANGED outsideMain

\* result = transcribe(preprocessed_path, use_diarization=...): the
\* dispatcher calls one backend and returns what it returns; an exception
\* of the backend goes through transcribe and ends the run
Transcribe ==
  /\ main_pc = "transcribe"
  /\ invoked' = Append(invoked, Backend(UseDiarization(args_multi)))
  /\ \E out \in BackendOutcomes :
        /\ backend_out' = Some(out)
        /\ main_result' = Some(out)
        /\ main_pc' = IF out.kind = "raise" THEN "failed" ELSE "format"
  /\ UNCHANGED <<entry, args_multi, args_output_format, rendered, content>>
  /\ UNCHANGED outsideMain

\* transcript = result.get("text", ""), then the formatter chosen by the
\* output format; python-docx may be missing, and then format_docx raises
Format ==
  /\ main_pc = "format"
  /\ LET res == Val(main_result).val
         transcript == Get(res, "text", << >>)
     IN  CASE args_output_format = "txt" ->
                /\ rendered' = <<Called("format_plain_text", transcript)>>
                /\ content' = Some(format_plain_text(transcript))
                /\ main_pc' = "done"
           [] args_output_format = "md" ->
                /\ rendered' = <<Called("format_markdown", transcript)>>
                /\ content' = Some(format_markdown(transcript))
                /\ main_pc' = "done"
           [] args_output_format = "srt" ->
                /\ rendered' = SrtBranch(res, transcript).calls
                /\ content' = Some(SrtBranch(res, transcript).content)
                /\ main_pc' = "done"
           [] args_output_format = "docx" ->
                /\ rendered' = <<Called("format_docx", transcript)>>
                /\ \/ /\ content' = Some(IF entry = "main"
                                        THEN Strip(transcript)
                                        ELSE StrDocxGenerated)
                      /\ main_pc' = "done"
                   \/ /\ content' = None
                      /\ main_pc' = "failed"
           [] OTHER ->
                \* main raises ValueError; run_transcription shows the
                \* transcript as it is
                /\ rendered' = << >>
                /\ content' = IF entry = "main" THEN None ELSE Some(transcript)
                /\ main_pc' = IF entry = "main" THEN "failed" ELSE "done"
  /\ UNCHANGED <<entry, args_multi, args_output_format, invoked,
                 backend_out, main_result>>
  /\ UNCHANGED outsideMain

NextMain ==
  \/ MainEnter
  \/ Transcribe
  \/ Format

SpecMain == Init /\ [][NextMain]_vars

\* transcribe has come back to its caller
Transcribed == main_pc \in {"format", "done", "failed"} /\ ~IsNone(main_result)

\* C14: once transcribe has come back, it has invoked exactly one backend:
\* transcribe_google when use_diarization is true, transcribe_whisper when
\* it is false or omitted; and what it gave its caller, a result or an
\* error, is what that backend gave.
C14_OneBackend ==
  Transcribed =>
     /\ Len(invoked) = 1
     /\ (args_multi = Some(TRUE) => invoked = <<"transcribe_google">>)
     /\ (args_multi \in {None, Some(FALSE)}
           => invoked = <<"transcribe_whisper">>)
     /\ main_result = backend_out

C14_Witness ==
  /\ Transcribed
  /\ args_multi = Some(TRUE)
  /\ invoked = <<"transcribe_google">>
  /\ Val(main_result) = Returns([text |-> StrHi, segments |-> ExampleSegments])


\* the run has got a result from the backend and is past the formatting
Formatted ==
  /\ main_pc \in {"done", "failed"}
  /\ ~IsNone(main_result)
  /\ Val(main_result).kind = "return"

\* C16: with the output format srt, a run whose backend returned renders
\* with format_srt when the result has a non-empty segment list and with
\* format_plain_text of the transcript when the list is empty or missing,
\* and it does not fail; format_srt is never called on an empty list.
C16_SrtFallback ==
  /\ (Formatted /\ args_output_format = "srt") =>
        LET res == Val(main_result).val
            segs == Get(res, "segments", << >>)
            transcript == Get(res, "text", << >>)
        IN  /\ main_pc = "done"
            /\ segs # << >> =>
                  /\ rendered = <<Called("format_srt", segs)>>
                  /\ content = Some(format_srt(segs))
            /\ segs = << >> =>
                  /\ rendered = <<Called("format_plain_text", transcript)>>
                  /\ content = Some(format_plain_text(transcript))
  /\ \A k \in 1..Len(rendered) :
        rendered[k].fn = "format_srt" => rendered[k].arg # << >>

\* a result without the key segments, rendered as plain text
C16_Witness ==
  /\ Formatted
  /\ args_output_format = "srt"
  /\ Val(main_result).val = [text |-> StrLeadHi]
  /\ main_pc = "done"
  /\ rendered = <<Called("format_plain_text", StrLeadHi)>>
  /\ content = Some(<<"H", "i", "\n">>)


\* ------------------------------------------------------------------
\* whisper_transcriber: the cached model, and calls of transcribe_whisper
\* from the threads of one process.  A thread can be suspended between any
\* two of its reads and writes of the global _MODEL, and whisper.load_model
\* runs for a long time, so every such read, write and call is a step.

Threads == 1..NumThreads

\* the module is imported: try: import whisper / except ModuleNotFoundError:
\* whisper = None, then _MODEL = None
ImportWhisper ==
  /\ whisper = "unbound"
  /\ whisper' \in {"module", "None"}
  /\ _MODEL' = None
  /\ UNCHANGED <<load_calls, w_pc, model, transcribed_on, w_calls>>
  /\ UNCHANGED outsideWhisper

\* a thread calls transcribe_whisper, which calls _load_model
WhisperCall(t) ==
  /\ whisper # "unbound"
  /\ w_pc[t] = "idle"
  /\ w_calls < MaxWhisperCalls
  /\ w_calls' = w_calls + 1
  /\ w_pc' = [w_pc EXCEPT ![t] = "check"]
  /\ model' = [model EXCEPT ![t] = None]
  /\ UNCHANGED <<whisper, _MODEL, load_calls, transcribed_on>>
  /\ UNCHANGED outsideWhisper

\* if whisper is None: raise RuntimeError
LoadModelRaise(t) ==
  /\ w_pc[t] = "check"
  /\ whisper = "None"
  /\ w_pc' = [w_pc EXCEPT ![t] = "idle"]
  /\ UNCHANGED <<whisper, _MODEL, load_calls, model, transcribed_on, w_calls>>
  /\ UNCHANGED outsideWhisper

\* if _MODEL is None: the read of the global and the branch taken
LoadModelCheck(t) ==
  /\ w_pc[t] = "check"
  /\ whisper = "module"
  /\ w_pc' = [w_pc EXCEPT ![t] = IF IsNone(_MODEL) THEN "load" ELSE "return"]
  /\ UNCHANGED <<whisper, _MODEL, load_calls, model, transcribed_on, w_calls>>
  /\ UNCHANGED outsideWhisper

\* whisper.load_model(WHISPER_MODEL_NAME) is invoked; it builds a new
\* model object
LoadModelInvoke(t) ==
  /\ w_pc[t] = "load"
  /\ load_calls' = load_calls + 1
  /\ model' = [model EXCEPT ![t] = Some(load_calls + 1)]
  /\ w_pc' = [w_pc EXCEPT ![t] = "store"]
  /\ UNCHANGED <<whisper, _MODEL, transcribed_on, w_calls>>
  /\ UNCHANGED outsideWhisper

\* _MODEL = <the loaded model>
LoadModelStore(t) ==
  /\ w_pc[t] = "store"
  /\ _MODEL' = model[t]
  /\ w_pc' = [w_pc EXCEPT ![t] = "return"]
  /\ UNCHANGED <<whisper, load_calls, model, transcribed_on, w_calls>>
  /\ UNCHANGED outsideWhisper

\* whisper.load_model raises (no such model, no memory, no download): the
\* exception ends the call and _MODEL stays as it was
LoadModelFails(t) ==
  /\ w_pc[t] = "store"
  /\ model' = [model EXCEPT ![t] = None]
  /\ w_pc' = [w_pc EXCEPT ![t] = "idle"]
  /\ UNCHANGED <<whisper, _MODEL, load_calls, transcribed_on, w_calls>>
  /\ UNCHANGED outsideWhisper

\* return _MODEL, read again from the global; model = _load_model()
LoadModelReturn(t) ==
  /\ w_pc[t] = "return"
  /\ model' = [model EXCEPT ![t] = _MODEL]
  /\ w_pc' = [w_pc EXCEPT ![t] = "transcribe"]
  /\ UNCHANGED <<whisper, _MODEL, load_calls, transcribed_on, w_calls>>
  /\ UNCHANGED outsideWhisper

\* result = model.transcribe(audio_path), and the call returns or raises
ModelTranscribe(t) ==
  /\ w_pc[t] = "transcribe"
  /\ transcribed_on' = transcribed_on \cup {Val(model[t])}
  /\ w_pc' = [w_pc EXCEPT ![t] = "idle"]
  /\ UNCHANGED <<whisper, _MODEL, load_calls, model, w_calls>>
  /\ UNCHANGED outsideWhisper

NextWhisper ==
  \/ ImportWhisper
  \/ \E t \in Threads : WhisperCall(t)
  \/ \E t \in Threads : LoadModelRaise(t)
  \/ \E t \in Threads : LoadModelCheck(t)
  \/ \E t \in Threads : LoadModelInvoke(t)
  \/ \E t \in Threads : LoadModelStore(t)
  \/ \E t \in Threads : LoadModelFails(t)
  \/ \E t \in Threads : LoadModelReturn(t)
  \/ \E t \in Threads : ModelTranscribe(t)

SpecWhisper == Init /\ [][NextWhisper]_vars

\* C15: over every interleaving of calls of transcribe_whisper,
\* whisper.load_model has been invoked at most once and every call of
\* model.transcribe was made on the same model object.
C15_LoadedOnce ==
  /\ load_calls <= 1
  /\ Cardinality(transcribed_on) <= 1


\* ------------------------------------------------------------------
\* transcribe_google: upload, recognition, grouping, deletion.

\* the truth value of an Optional[str]: None and "" are false
Truthy(o) == ~IsNone(o) /\ Val(o) # << >>

\* BucketName with a bucket of its own when none is given
BucketName_Default(param, env) ==
  IF Truthy(param) THEN param ELSE Some(<<"d">>)

\* gcs_bucket or os.environ.get("GCS_BUCKET")
BucketName(param, env) == IF Truthy(param) THEN param ELSE env

\* if speech is None or storage is None
LibrariesMissing == speech = "None" \/ storage = "None"

\* s.split(ch, n)
RECURSIVE SplitMax(_, _, _)
SplitMax(s, ch, n) ==
  IF n = 0 \/ \A i \in 1..Len(s) : s[i] # ch THEN <<s>>
  ELSE LET p == CHOOSE i \in 1..Len(s) :
                  s[i] = ch /\ \A j \in 1..(i - 1) : s[j] # ch
       IN  <<SubSeq(s, 1, p - 1)>>
             \o SplitMax(SubSeq(s, p + 1, Len(s)), ch, n - 1)

\* os.path.basename(local_path)
BaseName(path) == LET parts == SplitOn(path, "/") IN parts[Len(parts)]

StrUploads == <<"u", "p", "l", "o", "a", "d", "s", "/">>

\* f"{prefix}{uuid.uuid4().hex}_{os.path.basename(local_path)}", with the
\* number of the call for the identifier that no other call gets
BlobNameOf(path, n) == StrUploads \o PyStr(n) \o <<"_">> \o BaseName(path)

\* f"gs://{bucket_name}/{blob_name}"
GcsUriOf(bucket, blob) == <<"g", "s", ":", "/", "/">> \o bucket \o <<"/">> \o blob

\* gcs_uri.split("/", 3)[-1]
BlobOfUri(uri) == LET parts == SplitMax(uri, "/", 3) IN parts[Len(parts)]

AudioPaths == {<<"a">>, <<"t", "/", "a">>}
BucketArgs == {None, Some(<< >>), Some(<<"b">>)}
EnvBuckets == {None, Some(<< >>), Some(<<"e">>)}

\* what the recognition answers: results, each with its alternatives
Alternative(t, ws) == [transcript |-> t, words |-> ws]
Responses ==
  { [results |-> << >>],
    [results |-> << [alternatives |-> <<Alternative(StrHi, ExampleWords)>>] >>],
    [results |-> << [alternatives |-> <<Alternative(StrLeadHi, << >>)>>],
                    [alternatives |->
                       <<Alternative(StrByeTrail, ExampleWords)>>] >>],
    [results |-> << [alternatives |-> <<Alternative(StrHi, ExampleWords)>>],
                    [alternatives |-> << >>] >>] }

\* result.alternatives[0] is there for every result
HasAlternatives(resp) ==
  \A k \in 1..Len(resp.results) : resp.results[k].alternatives # << >>

\* text_chunks after the loop
TextChunks(resp) ==
  [k \in 1..Len(resp.results) |-> resp.results[k].alternatives[1].transcript]

\* last_alt_words after the loop: the words of the last alternative that
\* has any
RECURSIVE LastAltWords(_)
LastAltWords(results) ==
  IF results = << >> THEN << >>
  ELSE LET ws == results[Len(results)].alternatives[1].words
       IN  IF ws # << >> THEN ws
           ELSE LastAltWords(SubSeq(results, 1, Len(results) - 1))

Request(op, bucket, blob) ==
  [op |-> op, call |-> g_calls, bucket |-> bucket, blob |-> blob]

\* the module is imported in a process with its environment: speech and
\* storage are the libraries when both are installed and both None when
\* either import raises ModuleNotFoundError
GoogleImport ==
  /\ speech = "unbound"
  /\ \E installed \in SUBSET {"speech", "storage"} :
        /\ speech' = IF installed = {"speech", "storage"}
                     THEN "module" ELSE "None"
        /\ storage' = IF installed = {"speech", "storage"}
                      THEN "module" ELSE "None"
  /\ environ' \in EnvBuckets
  /\ UNCHANGED <<objects, requests, g_calls, g_pc, audio_path, gcs_bucket,
                 delete_after, bucket_name, gcs_uri, response, full_text,
                 delete_failed, g_out>>
  /\ UNCHANGED builderVars
  /\ UNCHANGED outsideGoogle

\* a call of transcribe_google
GoogleEnter ==
  /\ g_pc = "idle"
  /\ speech # "unbound"
  /\ g_calls < MaxGoogleCalls
  /\ g_calls' = g_calls + 1
  /\ audio_path' \in AudioPaths
  /\ gcs_bucket' \in BucketArgs
  /\ delete_after' \in BOOLEAN
  /\ bucket_name' = None
  /\ gcs_uri' = None
  /\ response' = None
  /\ full_text' = None
  /\ delete_failed' = FALSE
  /\ g_out' = None
  /\ g_pc' = "check"
  /\ UNCHANGED <<speech, storage, environ, objects, requests>>
  /\ UNCHANGED builderVars
  /\ UNCHANGED outsideGoogle

\* the two raise RuntimeError(...) at the top of the function
GoogleRaise ==
  /\ g_pc = "check"
  /\ LibrariesMissing \/ ~Truthy(BucketName(gcs_bucket, environ))
  /\ g_out' = Some(Raises("RuntimeError"))
  /\ g_pc' = "ended"
  /\ UNCHANGED <<speech, storage, environ, objects, requests, g_calls,
                 audio_path, gcs_bucket, delete_after, bucket_name, gcs_uri,
                 response, full_text, delete_failed>>
  /\ UNCHANGED builderVars
  /\ UNCHANGED outsideGoogle

\* gcs_uri = _upload_to_gcs(audio_path, bucket_name): the object is there
\* when the upload succeeds; when it raises, the call ends
GoogleUpload ==
  /\ g_pc = "check"
  /\ ~LibrariesMissing
  /\ Truthy(BucketName(gcs_bucket, environ))
  /\ LET bucket == Val(BucketName(gcs_bucket, environ))
         blob == BlobNameOf(audio_path, g_calls)
     IN  /\ bucket_name' = Some(bucket)
         /\ requests' = Append(requests, Request("upload", bucket, blob))
         /\ \/ /\ objects' = objects \cup {<<bucket, blob>>}
               /\ gcs_uri' = Some(GcsUriOf(bucket, blob))
               /\ g_pc' = "recognize"
               /\ g_out' = g_out
            \/ /\ objects' = objects
               /\ gcs_uri' = gcs_uri
               /\ g_pc' = "ended"
               /\ g_out' = Some(Raises("GoogleAPIError"))
  /\ UNCHANGED <<speech, storage, environ, g_calls, audio_path, gcs_bucket,
                 delete_after, response, full_text, delete_failed>>
  /\ UNCHANGED builderVars
  /\ UNCHANGED outsideGoogle

\* operation = client.long_running_recognize(...);
\* response = operation.result(timeout=3600): a response, or an exception
\* of the request or of the wait, which ends the call
GoogleRecognize ==
  /\ g_pc = "recognize"
  /\ requests' = Append(requests,
                        Request("recognize", Val(bucket_name),
                                BlobOfUri(Val(gcs_uri))))
  /\ \/ /\ response' \in {Some(r) : r \in Responses}
        /\ g_pc' = "build"
        /\ g_out' = g_out
     \/ /\ response' = response
        /\ g_pc' = "ended"
        /\ g_out' \in {Some(Raises("GoogleAPIError")),
                       Some(Raises("TimeoutError"))}
  /\ UNCHANGED <<speech, storage, environ, objects, g_calls, audio_path,
                 gcs_bucket, delete_after, bucket_name, gcs_uri, full_text,
                 delete_failed>>
  /\ UNCHANGED builderVars
  /\ UNCHANGED outsideGoogle

\* the loop over response.results meets a result without alternatives:
\* result.alternatives[0] raises IndexError
GoogleBuildFails ==
  /\ g_pc = "build"
  /\ ~HasAlternatives(Val(response))
  /\ g_out' = Some(Raises("IndexError"))
  /\ g_pc' = "ended"
  /\ UNCHANGED <<speech, storage, environ, objects, requests, g_calls,
                 audio_path, gcs_bucket, delete_after, bucket_name, gcs_uri,
                 response, full_text, delete_failed>>
  /\ UNCHANGED builderVars
  /\ UNCHANGED outsideGoogle

\* the loop over response.results, then the call
\* _group_words_into_segments(last_alt_words)
GoogleBuild ==
  /\ g_pc = "build"
  /\ HasAlternatives(Val(response))
  /\ GroupEnterFrom({LastAltWords(Val(response).results)})
  /\ g_pc' = "group"
  /\ UNCHANGED <<speech, storage, environ, objects, requests, g_calls,
                 audio_path, gcs_bucket, delete_after, bucket_name, gcs_uri,
                 response, full_text, delete_failed, g_out>>
  /\ UNCHANGED outsideGoogle

\* segments = <what the builder returned>;
\* full_text = " ".join(text_chunks).strip(); if delete_after:
GoogleGrouped ==
  /\ g_pc = "group"
  /\ pc = "returned"
  /\ pc' = "idle"
  /\ full_text' = Some(Strip(Join(<<" ">>, TextChunks(Val(response)))))
  /\ g_pc' = IF delete_after THEN "delete" ELSE "return"
  /\ UNCHANGED <<speech, storage, environ, objects, requests, g_calls,
                 audio_path, gcs_bucket, delete_after, bucket_name, gcs_uri,
                 response, delete_failed, g_out>>
  /\ UNCHANGED <<words, idx, cur_speaker, cur_words, seg_start, seg_end,
                 segments, result>>
  /\ UNCHANGED outsideGoogle

\* GoogleDelete with a failed deletion ending the call
GoogleDelete_Fatal ==
  /\ g_pc = "delete"
  /\ LET bucket == Val(bucket_name)
         blob == BlobOfUri(Val(gcs_uri))
     IN  /\ requests' = Append(requests, Request("delete", bucket, blob))
         /\ \/ /\ objects' = objects \ {<<bucket, blob>>}
               /\ delete_failed' = FALSE
               /\ g_pc' = "return"
               /\ g_out' = g_out
            \/ /\ objects' = objects
               /\ delete_failed' = TRUE
               /\ g_pc' = "ended"
               /\ g_out' = Some(Raises("GoogleAPIError"))
  /\ UNCHANGED <<speech, storage, environ, g_calls, audio_path, gcs_bucket,
                 delete_after, bucket_name, gcs_uri, response, full_text>>
  /\ UNCHANGED builderVars
  /\ UNCHANGED outsideGoogle

\* try: storage.Client().bucket(bucket_name).blob(...).delete()
\* except Exception: pass
GoogleDelete ==
  /\ g_pc = "delete"
  /\ LET bucket == Val(bucket_name)
         blob == BlobOfUri(Val(gcs_uri))
     IN  /\ requests' = Append(requests, Request("delete", bucket, blob))
         /\ \/ /\ objects' = objects \ {<<bucket, blob>>}
               /\ delete_failed' = FALSE
            \/ /\ objects' = objects
               /\ delete_failed' = TRUE
  /\ g_pc' = "return"
  /\ UNCHANGED <<speech, storage, environ, g_calls, audio_path, gcs_bucket,
                 delete_after, bucket_name, gcs_uri, response, full_text,
                 g_out>>
  /\ UNCHANGED builderVars
  /\ UNCHANGED outsideGoogle

\* what the call returns for a response, its segments and its upload
GoogleResult(text, segs, resp, uri) ==
  [text |-> text, segments |-> segs, full_response |-> resp, gcs_uri |-> uri]

\* return {"text": ..., "segments": ..., "full_response": ..., "gcs_uri": ...}
GoogleReturn ==
  /\ g_pc = "return"
  /\ g_out' = Some(Returns(GoogleResult(Val(full_text), result,
                                        Val(response), Val(gcs_uri))))
  /\ g_pc' = "ended"
  /\ UNCHANGED <<speech, storage, environ, objects, requests, g_calls,
                 audio_path, gcs_bucket, delete_after, bucket_name, gcs_uri,
                 response, full_text, delete_failed>>
  /\ UNCHANGED builderVars
  /\ UNCHANGED outsideGoogle

\* the caller has the outcome and may call again
GoogleDone ==
  /\ g_pc = "ended"
  /\ g_pc' = "idle"
  /\ UNCHANGED <<speech, storage, environ, objects, requests, g_calls,
                 audio_path, gcs_bucket, delete_after, bucket_name, gcs_uri,
                 response, full_text, delete_failed, g_out>>
  /\ UNCHANGED builderVars
  /\ UNCHANGED outsideGoogle

NextGoogle ==
  \/ GoogleImport
  \/ GoogleEnter
  \/ GoogleRaise
  \/ GoogleUpload
  \/ GoogleRecognize
  \/ GoogleBuildFails
  \/ GoogleBuild
  \/ GroupOpenFirst
  \/ GroupAppend
  \/ GroupFlush
  \/ GroupReturn
  \/ GoogleGrouped
  \/ GoogleDelete
  \/ GoogleReturn
  \/ GoogleDone

SpecGoogle == Init /\ [][NextGoogle]_vars

\* the object this call uploaded
Uploaded == <<Val(bucket_name), BlobNameOf(audio_path, g_calls)>>

\* the requests of the running call
RequestsOfCall(op) ==
  {k \in 1..Len(requests) : requests[k].call = g_calls /\ requests[k].op = op}

\* C17: a call with delete_after true whose deletion failed has returned,
\* not raised, and the text, the segments and the gcs_uri it returned are
\* those of the response and the upload, as after a deletion that
\* succeeded.
C17_DeleteFailureNonFatal ==
  (g_pc = "ended" /\ delete_after /\ delete_failed) =>
     /\ Val(g_out).kind = "return"
     /\ Val(g_out).val.text =
           Strip(Join(<<" ">>, TextChunks(Val(response))))
     /\ Val(g_out).val.segments = result
     /\ Val(g_out).val.gcs_uri =
           GcsUriOf(Uploaded[1], Uploaded[2])
     /\ Uploaded \in objects

C17_Witness ==
  /\ g_pc = "ended"
  /\ delete_after
  /\ delete_failed
  /\ Val(g_out).kind = "return"
  /\ Val(g_out).val.segments = ExampleSegments
  /\ Val(g_out).val.text = <<"H", "i", " ", "B", "y", "e">>


\* C18: a call with delete_after true that has ended after a successful
\* upload has sent a deletion request for the object it uploaded.
C18_DeletionAlwaysAttempted ==
  (g_pc = "ended" /\ delete_after /\ ~IsNone(gcs_uri)) =>
     \E k \in RequestsOfCall("delete") :
        /\ requests[k].bucket = Uploaded[1]
        /\ requests[k].blob = Uploaded[2]

\* neither the parameter gcs_bucket nor GCS_BUCKET names a bucket
NoBucketGiven == ~Truthy(gcs_bucket) /\ ~Truthy(environ)

\* C19: a call made without the Google libraries, or without a bucket name
\* in gcs_bucket or GCS_BUCKET, goes from its checks straight to its end:
\* it raises RuntimeError, it has sent no upload and no recognition
\* request, and no bucket holds an object of this call.
C19_FailsBeforeUpload ==
  (g_calls >= 1 /\ g_pc # "check" /\ (LibrariesMissing \/ NoBucketGiven)) =>
     /\ g_pc \in {"ended", "idle"}
     /\ g_out = Some(Raises("RuntimeError"))
     /\ RequestsOfCall("upload") = {}
     /\ RequestsOfCall("recognize") = {}
     /\ \A o \in objects : o[2] # BlobNameOf(audio_path, g_calls)

\* the libraries are there, the parameter is the empty string and
\* GCS_BUCKET is not set
C19_Witness ==
  /\ g_pc = "ended"
  /\ ~LibrariesMissing
  /\ gcs_bucket = Some(<< >>)
  /\ environ = None
  /\ g_out = Some(Raises("RuntimeError"))
  /\ requests = << >>
  /\ objects = {}


\* ------------------------------------------------------------------
\* summary_agent: generate_summary and the replies of the model.

\* JSON values as json.loads gives them
JStr(x) == [t |-> "str", v |-> x]
JInt(n) == [t |-> "int", v |-> n]
JNull == [t |-> "NoneType", v |-> 0]
JList(xs) == [t |-> "list", v |-> xs]
JDict(d) == [t |-> "dict", v |-> d]

\* str(x) of a JSON value; the containers among the items are empty ones
StrOf(x) ==
  CASE x.t = "str" -> x.v
    [] x.t = "int" -> PyStr(x.v)
    [] x.t = "NoneType" -> <<"N", "o", "n", "e">>
    [] x.t = "list" -> <<"[", "]">>
    [] x.t = "dict" -> <<"{", "}">>

\* Normalize without the filter
Normalize_KeepsBlank(xs) == [k \in 1..Len(xs) |-> Strip(StrOf(xs[k]))]

\* [str(x).strip() for x in xs if str(x).strip()]
Normalize(xs) ==
  LET kept == SelectSeq(xs, LAMBDA x : Strip(StrOf(x)) # << >>)
  IN  [k \in 1..Len(kept) |-> Strip(StrOf(kept[k]))]

\* t.lower() on the letters of the replies
Lower(s) ==
  [k \in 1..Len(s) |->
     CASE s[k] = "K" -> "k"
       [] s[k] = "A" -> "a"
       [] s[k] = "T" -> "t"
       [] s[k] = "I" -> "i"
       [] OTHER -> s[k]]

StartsWith(s, prefix) ==
  Len(s) >= Len(prefix) /\ SubSeq(s, 1, Len(prefix)) = prefix

StrKeyTakeaways ==
  <<"k", "e", "y", " ", "t", "a", "k", "e", "a", "w", "a", "y", "s">>
StrActionItems ==
  <<"a", "c", "t", "i", "o", "n", " ", "i", "t", "e", "m", "s">>

\* the loop of _bullet_fallback over raw.splitlines()
RECURSIVE BulletScan(_, _, _, _)
BulletScan(lines, section, kt, ai) ==
  IF lines = << >> THEN [key_takeaways |-> kt, action_items |-> ai]
  ELSE LET t == Strip(Head(lines))
           rest == Tail(lines)
       IN  IF t = << >> THEN BulletScan(rest, section, kt, ai)
           ELSE IF StartsWith(Lower(t), StrKeyTakeaways)
                THEN BulletScan(rest, "kt", kt, ai)
           ELSE IF StartsWith(Lower(t), StrActionItems)
                THEN BulletScan(rest, "ai", kt, ai)
           ELSE IF StartsWith(t, <<"-", " ">>)
                THEN LET item == JStr(Strip(SubSeq(t, 3, Len(t))))
                     IN  IF section = "kt"
                         THEN BulletScan(rest, section, Append(kt, item), ai)
                         ELSE IF section = "ai"
                         THEN BulletScan(rest, section, kt, Append(ai, item))
                         ELSE BulletScan(rest, section, kt, ai)
           ELSE BulletScan(rest, section, kt, ai)

_bullet_fallback(lines) == BulletScan(lines, "none", << >>, << >>)

EmptySummary == [key_takeaways |-> << >>, action_items |-> << >>]

\* A reply of the model: the lines of its text, what json.loads makes of
\* the text (a value, or None here for JSONDecodeError) and what
\* _extract_json finds in it (an object of a fenced block or the first
\* {...}, or None).
Reply(lines, loads, extract) ==
  [lines |-> lines, loads |-> loads, extract |-> extract]

LineKeyTakeaways ==
  <<"K", "e", "y", " ", "T", "a", "k", "e", "a", "w", "a", "y", "s", ":">>
LineActionItems ==
  <<"A", "c", "t", "i", "o", "n", " ", "I", "t", "e", "m", "s", ":">>
LineJson == <<"{", "}">>
\* a line of three grave accents, written here with apostrophes
LineFence == <<"'", "'", "'">>

ReplyBlankItems ==
  Reply(<<LineJson>>,
        Some(JDict([key_takeaways |->
                      JList(<<JStr(<<" ", "a", " ">>), JStr(<< >>),
                              JStr(<<" ">>)>>),
                    action_items |-> JList(<<JStr(<<"b">>)>>)])),
        None)

Replies ==
  { \* {"key_takeaways": [" a ", "", " "], "action_items": ["b"]}
    ReplyBlankItems,
    \* {"key_takeaways": [1, null, {}, []], "action_items": []}
    Reply(<<LineJson>>,
          Some(JDict([key_takeaways |->
                        JList(<<JInt(1), JNull, JDict(<< >>), JList(<< >>)>>),
                      action_items |-> JList(<< >>)])),
          None),
    \* {"action_items": ["b"]}: a key is missing
    Reply(<<LineJson>>,
          Some(JDict([action_items |-> JList(<<JStr(<<"b">>)>>)])),
          None),
    \* {"key_takeaways": "a", "action_items": ["b"]}: a field that is no list
    Reply(<<LineJson>>,
          Some(JDict([key_takeaways |-> JStr(<<"a">>),
                      action_items |-> JList(<<JStr(<<"b">>)>>)])),
          None),
    \* [1]: JSON that is no object
    Reply(<<<<"[", "1", "]">>>>, Some(JList(<<JInt(1)>>)), None),
    \* null
    Reply(<<<<"n", "u", "l", "l">>>>, Some(JNull), None),
    \* the empty reply (message.content is None or "")
    Reply(<< >>, None, None),
    \* bullets under the two headings and no JSON at all
    Reply(<<LineKeyTakeaways, <<"-", " ", "a">>, LineActionItems,
            <<"-", " ", "b", " ">>>>,
          None, None),
    \* a fenced block with an object in it
    Reply(<<LineFence, LineJson, LineFence>>,
          None,
          Some(JDict([key_takeaways |-> JList(<<JStr(<<"a">>)>>),
                      action_items |-> JList(<< >>)]))),
    \* bullets, then an object whose field is no list
    Reply(<<LineKeyTakeaways, <<"-", " ", " ", "a">>, <<"-", " ">>,
            LineActionItems, <<"x">>, LineJson>>,
          None,
          Some(JDict([key_takeaways |-> JInt(1)]))) }

\* what openai.chat.completions.create does: a reply, or an exception
ApiOutcomes ==
  {Returns(r) : r \in Replies}
  \cup {Raises("APIError"), Raises("TimeoutError")}

\* the statements of the try block after the API call, for a reply: the
\* dict they return, or the exception they raise
TryBody(r) ==
  LET parsed == IF ~IsNone(r.loads) THEN Val(r.loads)
                ELSE IF ~IsNone(r.extract) /\ Val(r.extract).v # << >>
                     THEN Val(r.extract)
                     ELSE JDict(<< >>)
  IN  IF parsed.t # "dict" THEN Raises("AttributeError")
      ELSE
        LET key_takeaways == Get(parsed.v, "key_takeaways", JList(<< >>))
            action_items == Get(parsed.v, "action_items", JList(<< >>))
            fallback == _bullet_fallback(r.lines)
            both == key_takeaways.t = "list" /\ action_items.t = "list"
            kt == IF both THEN key_takeaways.v ELSE fallback.key_takeaways
            ai == IF both THEN action_items.v ELSE fallback.action_items
        IN  Returns([key_takeaways |-> Normalize(kt),
                     action_items |-> Normalize(ai)])

\* try: ... except Exception: print(...); return the two empty lists
TryExcept(outcome) ==
  IF outcome.kind = "raise" THEN EmptySummary
  ELSE IF TryBody(outcome.val).kind = "raise" THEN EmptySummary
  ELSE TryBody(outcome.val).val

SummaryTranscripts ==
  {<< >>, <<" ">>, StrHi, StrLeadHi, StrBye, StrByeTrail, StrThere}

\* the module is imported: OPENAI_API_KEY comes from config, where it is
\* os.getenv("OPENAI_API_KEY", "")
SummaryImport ==
  /\ IsNone(OPENAI_API_KEY)
  /\ OPENAI_API_KEY' \in {Some(<< >>), Some(<<"k">>)}
  /\ UNCHANGED <<openai, s_pc, s_transcript, api_called, api_outcome, summary>>
  /\ UNCHANGED outsideSummary

\* a call of generate_summary, up to the API call: the two early returns
\* (no key or a blank transcript; the package openai is not installed)
GenerateSummaryEnter ==
  /\ ~IsNone(OPENAI_API_KEY)
  /\ s_pc = "idle"
  /\ api_called' = FALSE
  /\ api_outcome' = None
  /\ \E tr \in SummaryTranscripts :
        /\ s_transcript' = tr
        /\ IF Val(OPENAI_API_KEY) = << >> \/ Strip(tr) = << >>
           THEN /\ summary' = Some(Returns(EmptySummary))
                /\ s_pc' = "done"
                /\ openai' = openai
           ELSE IF IsNone(openai)
           THEN \/ /\ openai' = Some("module")
                   /\ summary' = None
                   /\ s_pc' = "api"
                \/ /\ openai' = None
                   /\ summary' = Some(Returns(EmptySummary))
                   /\ s_pc' = "done"
           ELSE /\ openai' = openai
                /\ summary' = None
                /\ s_pc' = "api"
  /\ UNCHANGED OPENAI_API_KEY
  /\ UNCHANGED outsideSummary

\* the try block: the API call and what follows it, and the handler
GenerateSummaryTry ==
  /\ s_pc = "api"
  /\ api_called' = TRUE
  /\ \E o \in ApiOutcomes :
        /\ api_outcome' = Some(o)
        /\ summary' = Some(Returns(TryExcept(o)))
  /\ s_pc' = "done"
  /\ UNCHANGED <<OPENAI_API_KEY, openai, s_transcript>>
  /\ UNCHANGED outsideSummary

\* the caller has the summary and may ask for another
GenerateSummaryDone ==
  /\ s_pc = "done"
  /\ s_pc' = "idle"
  /\ UNCHANGED <<OPENAI_API_KEY, openai, s_transcript, api_called,
                 api_outcome, summary>>
  /\ UNCHANGED outsideSummary

NextSummary ==
  \/ SummaryImport
  \/ GenerateSummaryEnter
  \/ GenerateSummaryTry
  \/ GenerateSummaryDone

SpecSummary == Init /\ [][NextSummary]_vars

\* a list of non-empty strings without blanks at either end
TrimmedStrings(xs) ==
  \A k \in 1..Len(xs) : xs[k] # << >> /\ Strip(xs[k]) = xs[k]

\* C20: a call of generate_summary that has ended has returned, not raised,
\* a dict with exactly the keys key_takeaways and action_items, each a list
\* of non-empty trimmed strings, whatever the API did; with an empty key
\* or a blank transcript the two lists are empty and the API was not
\* called.
C20_SummaryShape ==
  s_pc = "done" =>
     /\ Val(summary).kind = "return"
     /\ DOMAIN Val(summary).val = {"key_takeaways", "action_items"}
     /\ TrimmedStrings(Val(summary).val.key_takeaways)
     /\ TrimmedStrings(Val(summary).val.action_items)
     /\ (Val(OPENAI_API_KEY) = << >> \/ Strip(s_transcript) = << >>) =>
           /\ Val(summary).val = EmptySummary
           /\ ~api_called

\* the reply with blank items among its takeaways
C20_Witness ==
  /\ s_pc = "done"
  /\ api_called
  /\ api_outcome = Some(Returns(ReplyBlankItems))
  /\ Val(summary).val =
        [key_takeaways |-> <<<<"a">>>>, action_items |-> <<<<"b">>>>]

====
